---- MODULE Spec2Model ----
(***************************************************************************)
(* Model of ShellExecUnit (src/src/shell-exec-unit.ts): exec, stream,      *)
(* validate, kill, killAll over the running-process registry and the       *)
(* execution history, together with the child processes, their timers and  *)
(* the events Node delivers for them.                                      *)
(*                                                                         *)
(* Strings are sequences of one-character strings.  The event loop is      *)
(* modelled run-to-completion: a handler is one action, a promise          *)
(* continuation (the part of exec after `await this.validate`, the next    *)
(* iteration of killAll) is a microtask, and timers and process events run *)
(* only when no microtask is pending.                                      *)
(***************************************************************************)
EXTENDS Integers, Sequences, FiniteSets, TLC

\* ------------------------------------------------------------------ bounds
MaxExecs == 2

E == 1..MaxExecs

\* process ids: one per call suffices, and the OS may hand one out again
Pids == 1..MaxExecs

\* --------------------------------------------------------- configuration
maxConcurrent == 1

allowedCommands == << <<"l","s">>, <<"e","c","h","o">> >>

blockedCommands == << <<"r","m"," ","-","r","f">>, <<"s","u">> >>

\* the command texts the callers submit
Commands ==
  { <<"l","s">>,
    <<"e","c","h","o"," ","s","u","m">>,
    <<"d","d">> }

\* exit codes a process can report on its own exit
ExitCodes == {0, 1}

\* the `null` exit code of a close event (the process ended by a signal)
NoCode == 256

\* the negative errno Node reports as exit code after a failed spawn
SpawnErrno == -2

\* child.pid of a child that could not be spawned (undefined)
NoPid == 0

\* inputs of the validate specification: command texts of at most MaxLen
\* characters over Alphabet, configurations of the two lists, registry
\* sizes and limits
MaxLen == 4
Alphabet == {"a", "b", " "}
Texts == UNION { [1..n -> Alphabet] : n \in 0..MaxLen }
AllowLists == { <<>>,
                << <<"a">> >>,
                << <<"a", " ", "b">> >>,
                << <<"b">>, <<"a", "b">> >> }
BlockLists == { <<>>,
                << <<"b">> >>,
                << <<"a", "b">>, <<"b">> >>,
                << <<"b", " ">>, <<"a", "a">> >> }
Limits == 1..MaxExecs

\* the longest array a caller grows a snapshot of the history to
MaxSnapshot == 3

\* the timeouts and working directories a request supplies, and the
\* defaults a unit is configured with
Timeouts == {0, 1, 1000}
Cwds == { <<>>, <<".">>, <<"/", "t", "m", "p">> }
DefaultTimeouts == {5000, 30000}
DefaultCwds == { <<"/">>, <<"/", "a", "p", "p">> }

\* the longest history analyzePatterns is applied to, and the first tokens of
\* the commands in it
MaxHistory == 7
TokenNames == <<"a", "b", "c", "d", "e", "f">>

\* ------------------------------------------------------- string helpers
\* a prefix test that never answers yes
StartsWith_Never(s, p) == FALSE

\* String.prototype.startsWith
StartsWith(s, p) ==
  /\ Len(p) <= Len(s)
  /\ SubSeq(s, 1, Len(p)) = p


\* String.prototype.includes
Includes(s, sub) ==
  \E i \in 1..(Len(s) + 1) :
    /\ i + Len(sub) - 1 <= Len(s)
    /\ SubSeq(s, i, i + Len(sub) - 1) = sub

\* the first character instead of the first token
CommandBase_FirstChar(command) == SubSeq(command, 1, IF Len(command) = 0 THEN 0 ELSE 1)

\* command.split(' ')[0]: the characters before the first space
CommandBase(command) ==
  LET spaces == { i \in 1..Len(command) : command[i] = " " }
      first  == IF spaces = {} THEN Len(command) + 1
                ELSE CHOOSE i \in spaces : \A j \in spaces : i <= j
  IN  SubSeq(command, 1, first - 1)

\* the exit code taken as it comes, without `|| 0`
OrZero_Raw(x) == x

\* `exitCode || 0`
OrZero(x) == IF x = NoCode \/ x = 0 THEN 0 ELSE x

\* the bytes of the characters a process writes: ASCII letters, the space,
\* and the two bytes C3 A9 that encode one character (e acute) in UTF-8
RECURSIVE toString(_)
\* Buffer.prototype.toString(): UTF-8 decoding, a byte that is no part of a
\* complete sequence becoming the replacement character U+FFFD
toString(data) ==
  IF data = <<>> THEN <<>>
  ELSE IF Len(data) >= 2 /\ data[1] = "C3" /\ data[2] = "A9"
       THEN <<"e-acute">> \o toString(SubSeq(data, 3, Len(data)))
  ELSE IF data[1] \in {"C3", "A9"}
       THEN <<"U+FFFD">> \o toString(Tail(data))
  ELSE <<data[1]>> \o toString(Tail(data))

\* String.prototype.trim()
Trim(str) ==
  LET ink == { i \in 1..Len(str) : str[i] # " " }
  IN  IF ink = {} THEN <<>>
      ELSE SubSeq(str, CHOOSE i \in ink : \A k \in ink : i <= k,
                       CHOOSE i \in ink : \A k \in ink : i >= k)

\* ---------------------------------------------------------------- state
VARIABLES
  runningProcesses,   \* Map<pid, ChildProcess> in insertion order: <<[pid, child]>>
  executionHistory,   \* ExecResult[]
  call,               \* per call of exec/stream: its closure and its promise
  child,              \* per call: the ChildProcess it spawned and its OS process
  killAllRun,         \* the killAll in progress: is it active, the pids still to kill,
                      \* the children the registry held when the pids were taken
  probe,              \* one call of validate on a unit of its own: inputs and answer
  snapshot,           \* the array a caller holds from getHistory(): per element the
                      \* position of the stored record it refers to, 0 for a record
                      \* of the caller's own
  io,                 \* per call: the chunks its process has written to stdout and
                      \* stderr, those still to arrive, and the closure's `stdout`
                      \* and `stderr`
  analysis,           \* one call of analyzePatterns: was it made, and its answer
  execOptions,        \* one resolution of the options of an exec: the request's
                      \* fields, the configured defaults, the effective options
  reply               \* the answer of the last read-only operation called

\* the variables of the specifications that look at one operation on its own
aside == <<probe, snapshot, io, analysis, execOptions, reply>>

vars == <<runningProcesses, executionHistory, call, child, killAllRun, probe, snapshot, io,
         analysis, execOptions, reply>>

NoValidation ==
  [valid |-> FALSE, kind |-> "none", pattern |-> <<>>, limit |-> 0, suggestions |-> <<>>]

NoError == [type |-> "none", reason |-> NoValidation, command |-> <<>>]

NoProbe ==
  [ applied |-> FALSE, command |-> <<>>, allowed |-> <<>>, blocked |-> <<>>,
    running |-> <<>>, max |-> 0, result |-> NoValidation ]

NoCall ==
  [ pc            |-> "idle",      \* idle, validated, spawned, rejected
    kind          |-> "none",      \* exec, stream
    command       |-> <<>>,
    validation    |-> NoValidation,
    killed        |-> FALSE,       \* the closure's `killed`
    timeoutHandle |-> "none",      \* none, pending, fired, cleared
    graceTimer    |-> "none",      \* none, pending, fired
    settled       |-> "pending",   \* pending, resolved, rejected
    error         |-> NoError ]

NoChild ==
  [ state    |-> "none",   \* none, running, exited, spawnfail, errored, closed
    pid      |-> NoPid,
    killed   |-> FALSE,    \* child.killed: a signal was sent successfully
    signals  |-> {},       \* the signals the process has received
    exitCode |-> NoCode,
    termBy   |-> "none" ]  \* who sent the signal that ended the process

NoIo ==
  [ wroteOut |-> <<>>,   \* the chunks the process writes to stdout, as byte sequences
    wroteErr |-> <<>>,
    out      |-> <<>>,   \* the chunks not yet delivered as 'data' events
    err      |-> <<>>,
    stdout   |-> <<>>,   \* the closure's `stdout`
    stderr   |-> <<>>,
    log      |-> <<>> ]  \* stream: the callbacks invoked and the settling, in order

\* an options field the request does not have
NoTimeout == [given |-> FALSE, value |-> 0]
NoCwd == [given |-> FALSE, value |-> <<>>]

NoExecOptions ==
  [ applied |-> FALSE,
    options |-> [timeout |-> NoTimeout, cwd |-> NoCwd],
    defaultTimeout |-> 30000, defaultCwd |-> <<"/">>,
    result |-> [timeout |-> 0, cwd |-> <<>>] ]

NoAnalysis == [applied |-> FALSE, result |-> <<>>]

\* no read-only operation was called yet
NoReply ==
  [ op |-> "none", command |-> <<>>, validation |-> NoValidation, history |-> <<>>,
    pids |-> <<>>, patterns |-> <<>>, text |-> <<>> ]

Init ==
  /\ runningProcesses = <<>>
  /\ executionHistory = <<>>
  /\ call = [e \in E |-> NoCall]
  /\ child = [e \in E |-> NoChild]
  /\ killAllRun = [active |-> FALSE, pids |-> <<>>, targets |-> {}]
  /\ probe = NoProbe
  /\ snapshot = <<>>
  /\ io = [e \in E |-> NoIo]
  /\ analysis = NoAnalysis
  /\ execOptions = NoExecOptions
  /\ reply = NoReply

\* ------------------------------------------------------------- registry
\* Map.prototype.size
Size(m) == Len(m)

\* Map.prototype.has
Has(m, pid) == \E i \in 1..Len(m) : m[i].pid = pid

\* Map.prototype.get (only used where Has holds)
Get(m, pid) == (CHOOSE i \in 1..Len(m) : m[i].pid = pid)

\* Map.prototype.set: a new key is appended, an existing key keeps its place
Set(m, pid, c) ==
  IF Has(m, pid)
  THEN [i \in 1..Len(m) |-> IF m[i].pid = pid THEN [pid |-> pid, child |-> c] ELSE m[i]]
  ELSE Append(m, [pid |-> pid, child |-> c])

\* a delete that forgets to remove the key
Delete_Noop(m, pid) == m

\* Map.prototype.delete
Delete(m, pid) == SelectSeq(m, LAMBDA en : en.pid # pid)

\* Array.from(map.keys())
Keys(m) == [i \in 1..Len(m) |-> m[i].pid]

\* getHistory(): a copy of the history, in order
getHistory == executionHistory

\* getRunningProcesses(): the registered pids, in insertion order
getRunningProcesses == Keys(runningProcesses)

\* ------------------------------------------------------------- validate
\* Array.prototype.slice(0, n)
Slice(a, n) == SubSeq(a, 1, IF Len(a) < n THEN Len(a) ELSE n)

\* validate with the allow-list consulted before the block-list
validateWith_AllowFirst(command, running, allowed, blocked, max) ==
  LET blockedIdx == { i \in 1..Len(blocked) : Includes(command, blocked[i]) }
      first == CHOOSE i \in blockedIdx : \A j \in blockedIdx : i <= j
      commandBase == CommandBase(command)
      isAllowed == \E i \in 1..Len(allowed) :
                      \/ commandBase = allowed[i]
                      \/ StartsWith(command, allowed[i] \o <<" ">>)
  IN  IF Len(allowed) > 0 /\ ~isAllowed
      THEN [ valid |-> FALSE, kind |-> "notAllowed", pattern |-> commandBase, limit |-> 0,
             suggestions |-> Slice(allowed, 3) ]
      ELSE IF blockedIdx # {}
      THEN [ valid |-> FALSE, kind |-> "blocked", pattern |-> blocked[first], limit |-> 0,
             suggestions |-> << <<"Use safer alternatives to ">> \o blocked[first] >> ]
      ELSE IF Size(running) >= max
      THEN [ valid |-> FALSE, kind |-> "maxConcurrent", pattern |-> <<>>, limit |-> max,
             suggestions |-> << <<"Wait for running processes to complete">>,
                                <<"Use killAll() to terminate running processes">> >> ]
      ELSE [ valid |-> TRUE, kind |-> "ok", pattern |-> <<>>, limit |-> 0,
             suggestions |-> <<>> ]

\* validate with the limit compared by > instead of >=
validateWith_Strict(command, running, allowed, blocked, max) ==
  LET blockedIdx == { i \in 1..Len(blocked) : Includes(command, blocked[i]) }
      first == CHOOSE i \in blockedIdx : \A j \in blockedIdx : i <= j
      commandBase == CommandBase(command)
      isAllowed == \E i \in 1..Len(allowed) :
                      \/ commandBase = allowed[i]
                      \/ StartsWith(command, allowed[i] \o <<" ">>)
  IN  IF blockedIdx # {}
      THEN [ valid |-> FALSE, kind |-> "blocked", pattern |-> blocked[first], limit |-> 0,
             suggestions |-> << <<"Use safer alternatives to ">> \o blocked[first] >> ]
      ELSE IF Len(allowed) > 0 /\ ~isAllowed
      THEN [ valid |-> FALSE, kind |-> "notAllowed", pattern |-> commandBase, limit |-> 0,
             suggestions |-> Slice(allowed, 3) ]
      ELSE IF Size(running) > max
      THEN [ valid |-> FALSE, kind |-> "maxConcurrent", pattern |-> <<>>, limit |-> max,
             suggestions |-> << <<"Wait for running processes to complete">>,
                                <<"Use killAll() to terminate running processes">> >> ]
      ELSE [ valid |-> TRUE, kind |-> "ok", pattern |-> <<>>, limit |-> 0,
             suggestions |-> <<>> ]

\* the body of validate, for a unit configured with the lists `allowed` and
\* `blocked` and the limit `max`; texts are sequences of characters, the fixed
\* part of a message being one element
validateWith(command, running, allowed, blocked, max) ==
  LET blockedIdx == { i \in 1..Len(blocked) : Includes(command, blocked[i]) }
      first == CHOOSE i \in blockedIdx : \A j \in blockedIdx : i <= j
      commandBase == CommandBase(command)
      isAllowed == \E i \in 1..Len(allowed) :
                      \/ commandBase = allowed[i]
                      \/ StartsWith(command, allowed[i] \o <<" ">>)
  IN  IF blockedIdx # {}
      THEN [ valid |-> FALSE, kind |-> "blocked", pattern |-> blocked[first], limit |-> 0,
             suggestions |-> << <<"Use safer alternatives to ">> \o blocked[first] >> ]
      ELSE IF Len(allowed) > 0 /\ ~isAllowed
      THEN [ valid |-> FALSE, kind |-> "notAllowed", pattern |-> commandBase, limit |-> 0,
             suggestions |-> Slice(allowed, 3) ]
      ELSE IF Size(running) >= max
      THEN [ valid |-> FALSE, kind |-> "maxConcurrent", pattern |-> <<>>, limit |-> max,
             suggestions |-> << <<"Wait for running processes to complete">>,
                                <<"Use killAll() to terminate running processes">> >> ]
      ELSE [ valid |-> TRUE, kind |-> "ok", pattern |-> <<>>, limit |-> 0,
             suggestions |-> <<>> ]

\* validate of the unit under test
validate(command, running) ==
  validateWith(command, running, allowedCommands, blockedCommands, maxConcurrent)

\* the reason text of a validation result: the fixed part, then the
\* interpolated pattern, token or limit
ReasonOf(v) ==
  CASE v.kind = "blocked"       -> <<"Command contains blocked pattern: ">> \o v.pattern
    [] v.kind = "notAllowed"    -> <<"Command not in allowed list: ">> \o v.pattern
    [] v.kind = "maxConcurrent" -> <<"Maximum concurrent processes reached: ", v.limit>>
    [] OTHER                    -> <<"Command passed all safety checks">>

\* ------------------------------------------------------------ event loop
\* no promise continuation is queued: timers and process events can run
MicrotasksDrained ==
  /\ \A e \in E : call[e].pc # "validated"
  /\ ~killAllRun.active

\* callers take the call slots in order
NextCall(e) ==
  /\ call[e].pc = "idle"
  /\ \A d \in E : d < e => call[d].pc # "idle"

\* the pids the OS can hand out: the pid of a process that has exited (Node
\* has reaped it) but whose close is not handled yet, or a pid no child in
\* flight holds; pids of the latter kind are interchangeable, the least stands
\* for all of them
FreePids ==
  LET held(p) == \E e \in E : child[e].state \in {"running", "exited"} /\ child[e].pid = p
      reaped == { p \in Pids : /\ \E e \in E : child[e].state = "exited" /\ child[e].pid = p
                               /\ \A e \in E : ~(child[e].state = "running" /\ child[e].pid = p) }
      unheld == { p \in Pids : ~held(p) }
  IN  reaped \cup { p \in unheld : \A q \in unheld : p <= q }

\* ChildProcess.prototype.kill(sig): the signal is sent, and child.killed set,
\* only while Node still holds the process handle
ChildKill(ch, c, sig, from) ==
  IF ch[c].state = "running"
  THEN [ch EXCEPT ![c].killed = TRUE,
                  ![c].signals = @ \cup {[sig |-> sig, from |-> from]}]
  ELSE ch

\* spawn(...), the registration and the arming of the watchdog
\* (the part of exec and of stream inside `new Promise`)
Spawn(e, kind, command, validation) ==
  \/ \E p \in FreePids :
        /\ child' = [child EXCEPT ![e] = [NoChild EXCEPT !.state = "running", !.pid = p]]
        /\ runningProcesses' = Set(runningProcesses, p, e)
        /\ call' = [call EXCEPT ![e] = [NoCall EXCEPT !.pc = "spawned", !.kind = kind,
                                         !.command = command, !.validation = validation,
                                         !.timeoutHandle = "pending"]]
  \/ /\ child' = [child EXCEPT ![e] = [NoChild EXCEPT !.state = "spawnfail"]]
     /\ runningProcesses' = runningProcesses
     /\ call' = [call EXCEPT ![e] = [NoCall EXCEPT !.pc = "spawned", !.kind = kind,
                                      !.command = command, !.validation = validation,
                                      !.timeoutHandle = "pending"]]

\* exec, up to `await this.validate(command)`
exec(e, command) ==
  /\ UNCHANGED aside
  /\ NextCall(e)
  /\ call' = [call EXCEPT ![e] = [NoCall EXCEPT !.pc = "validated", !.kind = "exec",
                                   !.command = command,
                                   !.validation = validate(command, runningProcesses)]]
  /\ UNCHANGED <<runningProcesses, executionHistory, child, killAllRun>>

\* exec after the await with the validity check left out
execResume_NoGate(e) ==
  /\ UNCHANGED aside
  /\ call[e].pc = "validated"
  /\ Spawn(e, "exec", call[e].command, call[e].validation)
  /\ UNCHANGED <<executionHistory, killAllRun>>

\* exec, after the await: throw on an invalid command, else spawn
execResume(e) ==
  /\ UNCHANGED aside
  /\ call[e].pc = "validated"
  /\ IF ~call[e].validation.valid
     THEN /\ call' = [call EXCEPT ![e].pc = "rejected", ![e].settled = "rejected",
                                  ![e].error = [type |-> "blocked", reason |-> call[e].validation,
                                                command |-> <<>>]]
          /\ UNCHANGED <<runningProcesses, child>>
     ELSE Spawn(e, "exec", call[e].command, call[e].validation)
  /\ UNCHANGED <<executionHistory, killAllRun>>

\* stream: no validation, the spawn happens in the call itself
stream(e, command) ==
  /\ UNCHANGED aside
  /\ NextCall(e)
  /\ Spawn(e, "stream", command, NoValidation)
  /\ UNCHANGED <<executionHistory, killAllRun>>

\* the watchdog callback of exec and of stream
onTimeout(e) ==
  /\ UNCHANGED aside
  /\ MicrotasksDrained
  /\ call[e].timeoutHandle = "pending"
  /\ child[e].state # "spawnfail"
  /\ call' = [call EXCEPT ![e].killed = TRUE, ![e].timeoutHandle = "fired",
                          ![e].graceTimer = IF call[e].kind = "exec" THEN "pending" ELSE @]
  /\ child' = ChildKill(child, e, "SIGTERM", "watchdog")
  /\ UNCHANGED <<runningProcesses, executionHistory, killAllRun>>

\* the inner timer of exec, 1000 ms after the watchdog
onGraceTimeout(e) ==
  /\ UNCHANGED aside
  /\ MicrotasksDrained
  /\ call[e].graceTimer = "pending"
  /\ call' = [call EXCEPT ![e].graceTimer = "fired"]
  /\ child' = IF ~child[e].killed THEN ChildKill(child, e, "SIGKILL", "grace") ELSE child
  /\ UNCHANGED <<runningProcesses, executionHistory, killAllRun>>

\* child.stdout.on('data') of exec: the next chunk arrives
onStdoutData(e) ==
  /\ MicrotasksDrained
  /\ call[e].kind = "exec"
  /\ child[e].state \in {"running", "exited"}
  /\ io[e].out # <<>>
  /\ io' = [io EXCEPT ![e].stdout = @ \o toString(Head(io[e].out)),
                      ![e].out = Tail(@)]
  /\ UNCHANGED <<runningProcesses, executionHistory, call, child, killAllRun, probe, snapshot, analysis, execOptions, reply>>

\* child.stderr.on('data') of exec
onStderrData(e) ==
  /\ MicrotasksDrained
  /\ call[e].kind = "exec"
  /\ child[e].state \in {"running", "exited"}
  /\ io[e].err # <<>>
  /\ io' = [io EXCEPT ![e].stderr = @ \o toString(Head(io[e].err)),
                      ![e].err = Tail(@)]
  /\ UNCHANGED <<runningProcesses, executionHistory, call, child, killAllRun, probe, snapshot, analysis, execOptions, reply>>

\* one invocation of a callback of the stream options, or a settling of the
\* promise stream returned
Invoked(name, argument) == [cb |-> name, arg |-> argument]

\* child.stdout.on('data') of stream: options.onStdout?.(data.toString())
onStreamStdout(e) ==
  /\ MicrotasksDrained
  /\ call[e].kind = "stream"
  /\ child[e].state \in {"running", "exited"}
  /\ io[e].out # <<>>
  /\ io' = [io EXCEPT ![e].log = Append(@, Invoked("onStdout", toString(Head(io[e].out)))),
                      ![e].out = Tail(@)]
  /\ UNCHANGED <<runningProcesses, executionHistory, call, child, killAllRun, probe, snapshot, analysis, execOptions, reply>>

\* child.stderr.on('data') of stream: options.onStderr?.(data.toString())
onStreamStderr(e) ==
  /\ MicrotasksDrained
  /\ call[e].kind = "stream"
  /\ child[e].state \in {"running", "exited"}
  /\ io[e].err # <<>>
  /\ io' = [io EXCEPT ![e].log = Append(@, Invoked("onStderr", toString(Head(io[e].err)))),
                      ![e].err = Tail(@)]
  /\ UNCHANGED <<runningProcesses, executionHistory, call, child, killAllRun, probe, snapshot, analysis, execOptions, reply>>

\* the process exits on its own with a code
ProcExit(e, code) ==
  /\ UNCHANGED aside
  /\ MicrotasksDrained
  /\ child[e].state = "running"
  /\ child' = [child EXCEPT ![e].state = "exited", ![e].exitCode = code]
  /\ UNCHANGED <<runningProcesses, executionHistory, call, killAllRun>>

\* the process is ended by a signal it has received
ProcSignalled(e) ==
  /\ UNCHANGED aside
  /\ MicrotasksDrained
  /\ child[e].state = "running"
  /\ \E s \in child[e].signals :
        child' = [child EXCEPT ![e].state = "exited", ![e].exitCode = NoCode,
                               ![e].termBy = s.from]
  /\ UNCHANGED <<runningProcesses, executionHistory, call, killAllRun>>

\* executionHistory.push(result) with the result put first
PushResult_Front(h, r) == <<r>> \o h

\* executionHistory.push(result)
PushResult(h, r) == Append(h, r)

\* a close handler that records the result of a stream as well
onClose_RecordsStream(e) ==
  /\ UNCHANGED <<probe, snapshot, analysis, execOptions, reply>>
  /\ MicrotasksDrained
  /\ child[e].state \in {"exited", "errored"}
  /\ io[e].out = <<>> /\ io[e].err = <<>>
  /\ child' = [child EXCEPT ![e].state = "closed"]
  /\ runningProcesses' = IF child[e].pid # NoPid
                         THEN Delete(runningProcesses, child[e].pid)
                         ELSE runningProcesses
  /\ executionHistory' =
        IF call[e].kind \in {"exec", "stream"}
        THEN PushResult(executionHistory,
                    [ exitCode |-> OrZero(child[e].exitCode),
                      stdout   |-> Trim(io[e].stdout),
                      stderr   |-> Trim(io[e].stderr),
                      killed   |-> call[e].killed,
                      command  |-> call[e].command,
                      pid      |-> child[e].pid,
                      call     |-> e ])
        ELSE executionHistory
  /\ call' = [call EXCEPT
        ![e].timeoutHandle = IF @ = "pending" THEN "cleared" ELSE @,
        ![e].settled = IF @ = "pending" THEN "resolved" ELSE @]
  /\ io' = IF call[e].kind = "stream"
           THEN [io EXCEPT ![e].log =
                   @ \o <<Invoked("onExit", OrZero(child[e].exitCode))>>
                     \o IF call[e].settled = "pending"
                        THEN <<Invoked("resolve", OrZero(child[e].exitCode))>>
                        ELSE <<>>]
           ELSE io
  /\ UNCHANGED killAllRun

\* child.on('close') of exec and of stream
onClose(e) ==
  /\ UNCHANGED <<probe, snapshot, analysis, execOptions, reply>>
  /\ MicrotasksDrained
  /\ child[e].state \in {"exited", "errored"}
  /\ io[e].out = <<>> /\ io[e].err = <<>>
  /\ child' = [child EXCEPT ![e].state = "closed"]
  /\ runningProcesses' = IF child[e].pid # NoPid
                         THEN Delete(runningProcesses, child[e].pid)
                         ELSE runningProcesses
  /\ executionHistory' =
        IF call[e].kind = "exec"
        THEN PushResult(executionHistory,
                    [ exitCode |-> OrZero(child[e].exitCode),
                      stdout   |-> Trim(io[e].stdout),
                      stderr   |-> Trim(io[e].stderr),
                      killed   |-> call[e].killed,
                      command  |-> call[e].command,
                      pid      |-> child[e].pid,
                      call     |-> e ])
        ELSE executionHistory
  /\ call' = [call EXCEPT
        ![e].timeoutHandle = IF @ = "pending" THEN "cleared" ELSE @,
        ![e].settled = IF @ = "pending" THEN "resolved" ELSE @]
  /\ io' = IF call[e].kind = "stream"
           THEN [io EXCEPT ![e].log =
                   @ \o <<Invoked("onExit", OrZero(child[e].exitCode))>>
                     \o IF call[e].settled = "pending"
                        THEN <<Invoked("resolve", OrZero(child[e].exitCode))>>
                        ELSE <<>>]
           ELSE io
  /\ UNCHANGED killAllRun

\* child.on('error') of exec and of stream
onError(e) ==
  /\ UNCHANGED <<probe, snapshot, analysis, execOptions, reply>>
  /\ child[e].state = "spawnfail"
  /\ io' = IF call[e].kind = "stream" /\ call[e].settled = "pending"
           THEN [io EXCEPT ![e].log = Append(@, Invoked("reject", SpawnErrno))]
           ELSE io
  /\ child' = [child EXCEPT ![e].state = "errored", ![e].exitCode = SpawnErrno]
  /\ runningProcesses' = IF child[e].pid # NoPid
                         THEN Delete(runningProcesses, child[e].pid)
                         ELSE runningProcesses
  /\ call' = [call EXCEPT
        ![e].timeoutHandle = IF @ = "pending" THEN "cleared" ELSE @,
        ![e].settled = IF @ = "pending" THEN "rejected" ELSE @,
        ![e].error = IF call[e].settled = "pending"
                     THEN IF call[e].kind = "exec"
                          THEN [type |-> "execFailed", reason |-> NoValidation,
                                command |-> call[e].command]
                          ELSE [type |-> "spawnError", reason |-> NoValidation,
                                command |-> <<>>]
                     ELSE @]
  /\ UNCHANGED <<executionHistory, killAllRun>>

\* a kill that empties the registry
KillRegistry_Clear(m, pid) == IF Has(m, pid) THEN <<>> ELSE m

\* the body of kill(pid), as a function of the registry and the children
KillRegistry(m, pid) == IF Has(m, pid) THEN Delete(m, pid) ELSE m

\* a kill that sends no signal
KillChildren_None(m, ch, pid) == ch

KillChildren(m, ch, pid) ==
  IF Has(m, pid) THEN ChildKill(ch, m[Get(m, pid)].child, "SIGTERM", "kill") ELSE ch

\* the value kill(pid) returns
killReturns(m, pid) == Has(m, pid)

\* the value killAll() returns: pids.length
killAllReturns(m) == Len(Keys(m))

\* kill(pid)
kill(pid) ==
  /\ UNCHANGED aside
  /\ child' = KillChildren(runningProcesses, child, pid)
  /\ runningProcesses' = KillRegistry(runningProcesses, pid)
  /\ UNCHANGED <<executionHistory, call, killAllRun>>

\* killAll, up to its first `await this.kill(pid)`
killAll ==
  /\ UNCHANGED aside
  /\ ~killAllRun.active
  /\ LET pids == Keys(runningProcesses)
     IN  IF pids = <<>>
         THEN UNCHANGED <<runningProcesses, child, killAllRun>>
         ELSE /\ child' = KillChildren(runningProcesses, child, Head(pids))
              /\ runningProcesses' = KillRegistry(runningProcesses, Head(pids))
              /\ killAllRun' = [active |-> TRUE, pids |-> Tail(pids),
                                targets |-> { runningProcesses[i].child :
                                                i \in 1..Len(runningProcesses) }]
  /\ UNCHANGED <<executionHistory, call>>

\* killAll, after an await: the next iteration of the loop, or the return
killAllResume ==
  /\ UNCHANGED aside
  /\ killAllRun.active
  /\ IF killAllRun.pids = <<>>
     THEN /\ killAllRun' = [active |-> FALSE, pids |-> <<>>, targets |-> {}]
          /\ UNCHANGED <<runningProcesses, child>>
     ELSE /\ child' = KillChildren(runningProcesses, child, Head(killAllRun.pids))
          /\ runningProcesses' = KillRegistry(runningProcesses, Head(killAllRun.pids))
          /\ killAllRun' = [killAllRun EXCEPT !.pids = Tail(@)]
  /\ UNCHANGED <<executionHistory, call>>

Next ==
  \/ \E e \in E, c \in Commands : exec(e, c)
  \/ \E e \in E : execResume(e)
  \/ \E e \in E, c \in Commands : stream(e, c)
  \/ \E e \in E : onTimeout(e)
  \/ \E e \in E : onGraceTimeout(e)
  \/ \E e \in E, code \in ExitCodes : ProcExit(e, code)
  \/ \E e \in E : ProcSignalled(e)
  \/ \E e \in E : onClose(e)
  \/ \E e \in E : onError(e)
  \/ \E p \in Pids : kill(p)
  \/ killAll
  \/ killAllResume

Spec == Init /\ [][Next]_vars

\* Timers that are due fire, queued events and promise continuations are
\* delivered, and a process that has received SIGKILL ends.  A process is
\* free never to exit on its own and to ignore SIGTERM.
FairSpec ==
  /\ Spec
  /\ \A e \in E : WF_vars(execResume(e))
  /\ WF_vars(killAllResume)
  /\ \A e \in E : WF_vars(onTimeout(e))
  /\ \A e \in E : WF_vars(onGraceTimeout(e))
  /\ \A e \in E : WF_vars(onClose(e))
  /\ \A e \in E : WF_vars(onError(e))
  /\ \A e \in E : WF_vars(ProcSignalled(e) /\ (\E s \in child[e].signals : s.sig = "SIGKILL"))

\* -------------------------------------------------- validate on its own
\* a unit configured with one of the list pairs and limits, holding some
\* registered processes, about to validate one command text
ValidateInit ==
  /\ runningProcesses = <<>>
  /\ executionHistory = <<>>
  /\ call = [e \in E |-> NoCall]
  /\ child = [e \in E |-> NoChild]
  /\ killAllRun = [active |-> FALSE, pids |-> <<>>, targets |-> {}]
  /\ snapshot = <<>>
  /\ io = [e \in E |-> NoIo]
  /\ analysis = NoAnalysis
  /\ execOptions = NoExecOptions
  /\ reply = NoReply
  /\ \E c \in Texts, al \in AllowLists, bl \in BlockLists, n \in 0..MaxExecs, mx \in Limits :
       probe = [ applied |-> FALSE, command |-> c, allowed |-> al, blocked |-> bl,
                 running |-> [i \in 1..n |-> [pid |-> i, child |-> i]], max |-> mx,
                 result |-> NoValidation ]

\* one call of validate
ValidateApply ==
  /\ ~probe.applied
  /\ probe' = [probe EXCEPT !.applied = TRUE,
                            !.result = validateWith(probe.command, probe.running,
                                                    probe.allowed, probe.blocked, probe.max)]
  /\ UNCHANGED <<runningProcesses, executionHistory, call, child, killAllRun, snapshot, io, analysis, execOptions, reply>>

ValidateNext == ValidateApply

ValidateSpec == ValidateInit /\ [][ValidateNext]_vars

\* ------------------------------------------- callers and the history
\* Reverse of a sequence (Array.prototype.reverse)
Reverse(a) == [i \in 1..Len(a) |-> a[Len(a) + 1 - i]]

\* a unit at rest after n execs of an allowed command have completed: each
\* closed with an exit code and its result was pushed
HistoryInit ==
  /\ runningProcesses = <<>>
  /\ killAllRun = [active |-> FALSE, pids |-> <<>>, targets |-> {}]
  /\ probe = NoProbe
  /\ snapshot = <<>>
  /\ io = [e \in E |-> NoIo]
  /\ analysis = NoAnalysis
  /\ execOptions = NoExecOptions
  /\ reply = NoReply
  /\ \E n \in 0..MaxExecs :
     \E code \in [1..n -> ExitCodes], pid \in [1..n -> Pids], order \in [1..n -> 1..n] :
       /\ \A e \in 1..n : pid[e] <= e
       /\ \A a, b \in 1..n : a # b => order[a] # order[b]
       /\ \A a, b \in 1..n : (a < b /\ pid[order[a]] = pid[order[b]]) => order[a] < order[b]
       /\ call = [e \in E |->
                    IF e <= n
                    THEN [NoCall EXCEPT !.pc = "spawned", !.kind = "exec",
                                        !.command = allowedCommands[1],
                                        !.validation = validate(allowedCommands[1], <<>>),
                                        !.timeoutHandle = "cleared",
                                        !.settled = "resolved"]
                    ELSE NoCall]
       /\ child = [e \in E |->
                     IF e <= n
                     THEN [NoChild EXCEPT !.state = "closed", !.pid = pid[e],
                                          !.exitCode = code[e]]
                     ELSE NoChild]
       /\ executionHistory =
            [i \in 1..n |-> [ exitCode |-> OrZero(code[order[i]]),
                              stdout   |-> <<>>,
                              stderr   |-> <<>>,
                              killed   |-> FALSE,
                              command  |-> allowedCommands[1],
                              pid      |-> pid[order[i]],
                              call     |-> order[i] ]]

\* a caller calls getHistory(): a new array holding the stored records
\* themselves ([...array] copies the references)
callGetHistory ==
  /\ snapshot' = [i \in 1..Len(getHistory) |-> i]
  /\ UNCHANGED <<runningProcesses, executionHistory, call, child, killAllRun, probe, io, analysis, execOptions, reply>>

\* the caller removes the last element of its array
SnapshotPop ==
  /\ Len(snapshot) > 0
  /\ snapshot' = SubSeq(snapshot, 1, Len(snapshot) - 1)
  /\ UNCHANGED <<runningProcesses, executionHistory, call, child, killAllRun, probe, io, analysis, execOptions, reply>>

\* the caller adds a record of its own to its array
SnapshotPush ==
  /\ Len(snapshot) < MaxSnapshot
  /\ snapshot' = Append(snapshot, 0)
  /\ UNCHANGED <<runningProcesses, executionHistory, call, child, killAllRun, probe, io, analysis, execOptions, reply>>

\* the caller reverses its array
SnapshotReverse ==
  /\ snapshot' = Reverse(snapshot)
  /\ UNCHANGED <<runningProcesses, executionHistory, call, child, killAllRun, probe, io, analysis, execOptions, reply>>

\* the caller assigns to the exitCode field of element k of its array: the
\* element is the stored record, or the caller's own record
SnapshotSetField(k, v) ==
  /\ k \in 1..Len(snapshot)
  /\ executionHistory' =
        IF snapshot[k] # 0
        THEN [executionHistory EXCEPT ![snapshot[k]].exitCode = v]
        ELSE executionHistory
  /\ UNCHANGED <<runningProcesses, call, child, killAllRun, probe, snapshot, io, analysis, execOptions, reply>>

HistoryNext ==
  \/ callGetHistory
  \/ SnapshotPop
  \/ SnapshotPush
  \/ SnapshotReverse
  \/ \E k \in 1..MaxSnapshot, v \in ExitCodes : SnapshotSetField(k, v)

HistorySpec == HistoryInit /\ [][HistoryNext]_vars

\* --------------------------------------------- the output of a process
\* what a process writes to stdout and to stderr, chunk by chunk
OutChunkings ==
  { <<>>,
    << <<" ", "a", " ">> >>,
    << <<" ">>, <<"a", " ">> >>,
    << <<" ", "a">>, <<" ">> >>,
    << <<"C3", "A9">> >>,
    << <<"C3">>, <<"A9">> >> }
ErrChunkings ==
  { <<>>,
    << <<"b", "b">> >>,
    << <<"b">>, <<"b">> >> }

\* n execs of an allowed command are running side by side, their processes
\* about to write
OutputInit ==
  /\ executionHistory = <<>>
  /\ killAllRun = [active |-> FALSE, pids |-> <<>>, targets |-> {}]
  /\ probe = NoProbe
  /\ snapshot = <<>>
  /\ analysis = NoAnalysis
  /\ execOptions = NoExecOptions
  /\ reply = NoReply
  /\ \E n \in 1..MaxExecs :
       /\ runningProcesses = [i \in 1..n |-> [pid |-> i, child |-> i]]
       /\ call = [e \in E |->
                    IF e <= n
                    THEN [NoCall EXCEPT !.pc = "spawned", !.kind = "exec",
                                        !.command = allowedCommands[1],
                                        !.validation = validate(allowedCommands[1], <<>>),
                                        !.timeoutHandle = "pending"]
                    ELSE NoCall]
       /\ child = [e \in E |->
                     IF e <= n
                     THEN [NoChild EXCEPT !.state = "running", !.pid = e]
                     ELSE NoChild]
       /\ \E o \in [1..n -> OutChunkings], r \in [1..n -> ErrChunkings] :
            io = [e \in E |->
                    IF e <= n
                    THEN [NoIo EXCEPT !.wroteOut = o[e], !.wroteErr = r[e],
                                      !.out = o[e], !.err = r[e]]
                    ELSE NoIo]

OutputNext ==
  \/ \E e \in E : onStdoutData(e)
  \/ \E e \in E : onStderrData(e)
  \/ \E e \in E, code \in ExitCodes : ProcExit(e, code)
  \/ \E e \in E : onClose(e)

OutputSpec == OutputInit /\ [][OutputNext]_vars

\* ------------------------------------------------------ stream callbacks
\* what a streamed process writes to a pipe, chunk by chunk
StreamChunkings ==
  { <<>>,
    << <<"a">> >>,
    << <<"a">>, <<"b">> >> }

\* n stream calls were made: of each the process is running and about to
\* write, or its spawn failed and the 'error' event is due
StreamInit ==
  /\ executionHistory = <<>>
  /\ killAllRun = [active |-> FALSE, pids |-> <<>>, targets |-> {}]
  /\ probe = NoProbe
  /\ snapshot = <<>>
  /\ analysis = NoAnalysis
  /\ execOptions = NoExecOptions
  /\ reply = NoReply
  /\ \E n \in 1..MaxExecs, started \in SUBSET E :
       LET Started(entry) == entry.child \in started IN
       /\ started \subseteq 1..n
       /\ runningProcesses =
             SelectSeq([i \in 1..n |-> [pid |-> i, child |-> i]], Started)
       /\ call = [e \in E |->
                    IF e <= n
                    THEN [NoCall EXCEPT !.pc = "spawned", !.kind = "stream",
                                        !.command = allowedCommands[1],
                                        !.timeoutHandle = "pending"]
                    ELSE NoCall]
       /\ child = [e \in E |->
                     IF e \in started
                     THEN [NoChild EXCEPT !.state = "running", !.pid = e]
                     ELSE IF e <= n
                     THEN [NoChild EXCEPT !.state = "spawnfail"]
                     ELSE NoChild]
       /\ \E o \in [started -> StreamChunkings], r \in [started -> StreamChunkings] :
            io = [e \in E |->
                    IF e \in started
                    THEN [NoIo EXCEPT !.wroteOut = o[e], !.wroteErr = r[e],
                                      !.out = o[e], !.err = r[e]]
                    ELSE NoIo]

StreamNext ==
  \/ \E e \in E : onStreamStdout(e)
  \/ \E e \in E : onStreamStderr(e)
  \/ \E e \in E : onTimeout(e)
  \/ \E e \in E, code \in ExitCodes : ProcExit(e, code)
  \/ \E e \in E : ProcSignalled(e)
  \/ \E e \in E : onClose(e)
  \/ \E e \in E : onError(e)

StreamSpec == StreamInit /\ [][StreamNext]_vars

\* ------------------------------------------------------ analyzePatterns
\* a quotient a / b of two numbers, kept as the pair; 0 is 0 / 1
Zero == [num |-> 0, den |-> 1]

\* history.filter(r => r.exitCode === 0).length
Successes(h) == Cardinality({ i \in 1..Len(h) : h[i].exitCode = 0 })

RECURSIVE SumDuration(_)
\* history.reduce((sum, r) => sum + r.duration, 0)
SumDuration(h) == IF h = <<>> THEN 0 ELSE h[1].duration + SumDuration(Tail(h))

\* successes / total without the guard on an empty history
successRate_NoGuard(h) == [num |-> Successes(h), den |-> Len(h)]

\* total > 0 ? successes / total : 0
successRate(h) ==
  IF Len(h) > 0 THEN [num |-> Successes(h), den |-> Len(h)] ELSE Zero

\* total > 0 ? sum of the durations / total : 0
averageDuration(h) ==
  IF Len(h) > 0 THEN [num |-> SumDuration(h), den |-> Len(h)] ELSE Zero

RECURSIVE commandCounts(_)
\* the Map from first token to number of uses, in insertion order
commandCounts(h) ==
  IF h = <<>> THEN <<>>
  ELSE LET before == commandCounts(SubSeq(h, 1, Len(h) - 1))
           baseCmd == CommandBase(h[Len(h)].command)
       IN  IF \E i \in 1..Len(before) : before[i].cmd = baseCmd
           THEN [i \in 1..Len(before) |->
                   IF before[i].cmd = baseCmd
                   THEN [cmd |-> baseCmd, count |-> before[i].count + 1]
                   ELSE before[i]]
           ELSE Append(before, [cmd |-> baseCmd, count |-> 1])

\* an insertion that puts an entry before the entries of equal count
InsertDesc_BeforeEqual(sorted, x) ==
  LET k == Cardinality({ i \in 1..Len(sorted) : sorted[i].count > x.count })
  IN  SubSeq(sorted, 1, k) \o <<x>> \o SubSeq(sorted, k + 1, Len(sorted))

\* x put into a list sorted by descending count, behind the entries of
\* greater or equal count
InsertDesc(sorted, x) ==
  LET k == Cardinality({ i \in 1..Len(sorted) : sorted[i].count >= x.count })
  IN  SubSeq(sorted, 1, k) \o <<x>> \o SubSeq(sorted, k + 1, Len(sorted))

RECURSIVE SortDesc(_)
\* entries.sort(([,a], [,b]) => b - a): descending by count, stable
SortDesc(entries) ==
  IF entries = <<>> THEN <<>>
  ELSE InsertDesc(SortDesc(SubSeq(entries, 1, Len(entries) - 1)), entries[Len(entries)])

\* sort, slice(0, 5), map(([cmd]) => cmd)
mostUsedCommands(h) ==
  LET top == Slice(SortDesc(commandCounts(h)), 5)
  IN  [i \in 1..Len(top) |-> top[i].cmd]

\* Array.prototype.slice(-n)
SliceLast(a, n) == SubSeq(a, IF Len(a) > n THEN Len(a) - n + 1 ELSE 1, Len(a))

\* the first five failures instead of the last five
recentFailures_Oldest(h) == Slice(SelectSeq(h, LAMBDA r : r.exitCode # 0), 5)

\* history.filter(r => r.exitCode !== 0).slice(-5)
recentFailures(h) == SliceLast(SelectSeq(h, LAMBDA r : r.exitCode # 0), 5)

analyzePatterns(h) ==
  [ totalExecutions  |-> Len(h),
    successRate      |-> successRate(h),
    averageDuration  |-> averageDuration(h),
    mostUsedCommands |-> mostUsedCommands(h),
    recentFailures   |-> recentFailures(h) ]

\* a fresh unit
AnalyzeInit ==
  /\ runningProcesses = <<>>
  /\ executionHistory = <<>>
  /\ call = [e \in E |-> NoCall]
  /\ child = [e \in E |-> NoChild]
  /\ killAllRun = [active |-> FALSE, pids |-> <<>>, targets |-> {}]
  /\ probe = NoProbe
  /\ snapshot = <<>>
  /\ io = [e \in E |-> NoIo]
  /\ analysis = NoAnalysis
  /\ execOptions = NoExecOptions
  /\ reply = NoReply

\* the first tokens seen in the history so far
TokensSeen == { CommandBase(executionHistory[i].command) : i \in 1..Len(executionHistory) }

\* an exec completes and its result is pushed: the command starts with token
\* k, its process exited with `code`.  Commands not seen before are
\* interchangeable, the next unused token stands for all of them; a failing
\* run is one with an argument; the durations grow from result to result.
recordResult(k, code) ==
  /\ Len(executionHistory) < MaxHistory
  /\ k <= Cardinality(TokensSeen) + 1
  /\ executionHistory' =
        PushResult(executionHistory,
                   [ exitCode |-> OrZero(code),
                     duration |-> 10 * (Len(executionHistory) + 1),
                     killed   |-> FALSE,
                     command  |-> IF code = 0 THEN <<TokenNames[k]>>
                                  ELSE <<TokenNames[k], " ", "x">> ])
  /\ analysis' = NoAnalysis
  /\ UNCHANGED <<runningProcesses, call, child, killAllRun, probe, snapshot, io, execOptions, reply>>

\* a call of analyzePatterns()
callAnalyzePatterns ==
  /\ ~analysis.applied
  /\ analysis' = [applied |-> TRUE, result |-> analyzePatterns(executionHistory)]
  /\ UNCHANGED <<runningProcesses, executionHistory, call, child, killAllRun,
                 probe, snapshot, io, execOptions, reply>>

AnalyzeNext ==
  \/ \E k \in 1..Len(TokenNames), code \in ExitCodes : recordResult(k, code)
  \/ callAnalyzePatterns

AnalyzeSpec == AnalyzeInit /\ [][AnalyzeNext]_vars

\* ------------------------------------------------ the options of exec
\* a || b for an options field: b when the field is absent or falsy (0 for a
\* number, '' for a string)
OrDefault(field, falsy, default) ==
  IF ~field.given \/ field.value = falsy THEN default ELSE field.value

\* const execOptions = {...options, cwd: ..., timeout: ...}
resolveOptions(options, defaultTimeout, defaultCwd) ==
  [ timeout |-> OrDefault(options.timeout, 0, defaultTimeout),
    cwd     |-> OrDefault(options.cwd, <<>>, defaultCwd) ]

\* a configured unit and a request about to be resolved
OptionsInit ==
  /\ runningProcesses = <<>>
  /\ executionHistory = <<>>
  /\ call = [e \in E |-> NoCall]
  /\ child = [e \in E |-> NoChild]
  /\ killAllRun = [active |-> FALSE, pids |-> <<>>, targets |-> {}]
  /\ probe = NoProbe
  /\ snapshot = <<>>
  /\ io = [e \in E |-> NoIo]
  /\ analysis = NoAnalysis
  /\ reply = NoReply
  /\ \E t \in {NoTimeout} \cup { [given |-> TRUE, value |-> v] : v \in Timeouts },
        d \in {NoCwd} \cup { [given |-> TRUE, value |-> v] : v \in Cwds },
        dt \in DefaultTimeouts, dd \in DefaultCwds :
       execOptions = [NoExecOptions EXCEPT !.options = [timeout |-> t, cwd |-> d],
                                           !.defaultTimeout = dt, !.defaultCwd = dd]

\* exec resolves its effective options; the watchdog is armed with
\* result.timeout and the process spawned in result.cwd
execResolveOptions ==
  /\ ~execOptions.applied
  /\ execOptions' = [execOptions EXCEPT
        !.applied = TRUE,
        !.result = resolveOptions(execOptions.options, execOptions.defaultTimeout,
                                  execOptions.defaultCwd)]
  /\ UNCHANGED <<runningProcesses, executionHistory, call, child, killAllRun,
                 probe, snapshot, io, analysis, reply>>

OptionsNext == execResolveOptions

OptionsSpec == OptionsInit /\ [][OptionsNext]_vars

\* ------------------------------------------------ read-only operations
\* a count as it is interpolated into a template string
Digit(n) == <<"0", "1", "2", "3", "4", "5", "6", "7", "8", "9">>[n + 1]

\* whoami(): the text built from the two counts
whoami ==
  << "ShellExecUnit v", "1.0.7", " - ", Digit(Len(executionHistory)),
     " commands executed, ", Digit(Size(runningProcesses)), " running" >>

\* the commands of Commands a fresh unit accepts
Accepted == { c \in Commands : validate(c, <<>>).valid }

\* what a call of the unit can have been: an exec of an accepted command
\* or a stream of any command
Requests ==
  { [kind |-> "exec", command |-> c] : c \in Accepted } \cup
  { [kind |-> "stream", command |-> c] : c \in Commands }

\* a unit after up to MaxExecs calls: each call has its process running, or
\* was closed, an exec leaving its result in the history
QueryInit ==
  /\ killAllRun = [active |-> FALSE, pids |-> <<>>, targets |-> {}]
  /\ probe = NoProbe
  /\ snapshot = <<>>
  /\ io = [e \in E |-> NoIo]
  /\ analysis = NoAnalysis
  /\ execOptions = NoExecOptions
  /\ reply = NoReply
  /\ \E n \in 0..MaxExecs :
     \E closed \in SUBSET (1..n), req \in [1..n -> Requests], code \in [1..n -> ExitCodes] :
       LET Running(entry) == entry.child \notin closed
           Recorded(entry) == entry.call \in closed /\ req[entry.call].kind = "exec"
       IN
       /\ runningProcesses =
             SelectSeq([i \in 1..n |-> [pid |-> i, child |-> i]], Running)
       /\ executionHistory =
             SelectSeq([i \in 1..n |->
                          [ exitCode |-> OrZero(code[i]), stdout |-> <<>>, stderr |-> <<>>,
                            duration |-> 10 * i, killed |-> FALSE,
                            command |-> req[i].command, pid |-> i, call |-> i ]], Recorded)
       /\ call = [e \in E |->
                    IF e <= n
                    THEN [NoCall EXCEPT !.pc = "spawned", !.kind = req[e].kind,
                                        !.command = req[e].command,
                                        !.validation = IF req[e].kind = "exec"
                                                       THEN validate(req[e].command, <<>>)
                                                       ELSE NoValidation,
                                        !.timeoutHandle = IF e \in closed THEN "cleared"
                                                          ELSE "pending",
                                        !.settled = IF e \in closed THEN "resolved"
                                                    ELSE "pending"]
                    ELSE NoCall]
       /\ child = [e \in E |->
                     IF e \in closed
                     THEN [NoChild EXCEPT !.state = "closed", !.pid = e, !.exitCode = code[e]]
                     ELSE IF e <= n
                     THEN [NoChild EXCEPT !.state = "running", !.pid = e]
                     ELSE NoChild]

\* a call of validate(command) on the unit
queryValidate(command) ==
  /\ reply' = [NoReply EXCEPT !.op = "validate", !.command = command,
                              !.validation = validate(command, runningProcesses)]
  /\ UNCHANGED <<runningProcesses, executionHistory, call, child, killAllRun,
                 probe, snapshot, io, analysis, execOptions>>

\* a call of getHistory()
queryGetHistory ==
  /\ reply' = [NoReply EXCEPT !.op = "getHistory", !.history = getHistory]
  /\ UNCHANGED <<runningProcesses, executionHistory, call, child, killAllRun,
                 probe, snapshot, io, analysis, execOptions>>

\* a getRunningProcesses that also forgets what it reported
queryGetRunningProcesses_Drain ==
  /\ reply' = [NoReply EXCEPT !.op = "getRunningProcesses", !.pids = getRunningProcesses]
  /\ runningProcesses' = <<>>
  /\ UNCHANGED <<executionHistory, call, child, killAllRun,
                 probe, snapshot, io, analysis, execOptions>>

\* a call of getRunningProcesses()
queryGetRunningProcesses ==
  /\ reply' = [NoReply EXCEPT !.op = "getRunningProcesses", !.pids = getRunningProcesses]
  /\ UNCHANGED <<runningProcesses, executionHistory, call, child, killAllRun,
                 probe, snapshot, io, analysis, execOptions>>

\* a call of analyzePatterns()
queryAnalyzePatterns ==
  /\ reply' = [NoReply EXCEPT !.op = "analyzePatterns",
                              !.patterns = analyzePatterns(executionHistory)]
  /\ UNCHANGED <<runningProcesses, executionHistory, call, child, killAllRun,
                 probe, snapshot, io, analysis, execOptions>>

\* a call of whoami()
queryWhoami ==
  /\ reply' = [NoReply EXCEPT !.op = "whoami", !.text = whoami]
  /\ UNCHANGED <<runningProcesses, executionHistory, call, child, killAllRun,
                 probe, snapshot, io, analysis, execOptions>>

QueryNext ==
  \/ \E c \in Commands : queryValidate(c)
  \/ queryGetHistory
  \/ queryGetRunningProcesses
  \/ queryAnalyzePatterns
  \/ queryWhoami

QuerySpec == QueryInit /\ [][QueryNext]_vars

\* ---------------------------------------------------------------- claims
SigTermWatchdog == [sig |-> "SIGTERM", from |-> "watchdog"]

SigKillGrace == [sig |-> "SIGKILL", from |-> "grace"]

\* the calls whose child is registered
Registered(e) == \E i \in 1..Len(runningProcesses) : runningProcesses[i].child = e

\* the history entries appended by call e
EntriesOf(e) == { i \in 1..Len(executionHistory) : executionHistory[i].call = e }

\* C1: the registry never holds more than maxConcurrent entries.
C1_RegistryWithinLimit == Size(runningProcesses) <= maxConcurrent

\* C2: of the exec calls issued, at most maxConcurrent spawn and the excess
\* is rejected: no exec call goes from validated to spawned while the
\* processes of maxConcurrent exec calls are registered.
C2_ExcessExecRejected ==
  [][\A e \in E :
       (call[e].pc = "validated" /\ call'[e].pc = "spawned")
         => Cardinality({ d \in E : call[d].kind = "exec" /\ Registered(d) })
              < maxConcurrent]_vars

\* C3: at most maxConcurrent exec calls have a spawned child whose close or
\* error has not been handled yet.
C3_InFlightWithinLimit ==
  Cardinality({ e \in E : /\ call[e].kind = "exec"
                          /\ child[e].state \in {"running", "exited"} })
    <= maxConcurrent

\* C4: when the validation of an exec call is invalid, the step that resumes
\* the call rejects it with the validation reason, spawns nothing and leaves
\* the registry and the history as they were.
C4_RejectLeavesState ==
  [][\A e \in E :
       (call[e].pc = "validated" /\ ~call[e].validation.valid /\ call'[e].pc # "validated")
         => /\ call'[e].pc = "rejected"
            /\ call'[e].settled = "rejected"
            /\ call'[e].error = [type |-> "blocked", reason |-> call[e].validation,
                                 command |-> <<>>]
            /\ child'[e] = NoChild
            /\ runningProcesses' = runningProcesses
            /\ executionHistory' = executionHistory]_vars

\* C4 witness: a call was rejected for the concurrency limit while a process
\* was registered and running.
C4_Witness ==
  \E e \in E :
    /\ call[e].pc = "rejected"
    /\ call[e].error.reason.kind = "maxConcurrent"
    /\ child[e] = NoChild
    /\ \E d \in E : Registered(d) /\ child[d].state = "running"

\* C5: when the watchdog of an exec fires, the call is marked killed and a
\* running process gets SIGTERM; when the inner timer fires 1000 ms later and
\* the process has still not exited, SIGKILL is sent to it.
C5_ForcefulKillSent ==
  [][\A e \in E :
       /\ (call[e].kind = "exec" /\ call[e].timeoutHandle = "pending"
             /\ call'[e].timeoutHandle = "fired")
            => /\ call'[e].killed
               /\ child[e].state = "running" => SigTermWatchdog \in child'[e].signals
       /\ (call[e].graceTimer = "pending" /\ call'[e].graceTimer = "fired"
             /\ child[e].state = "running")
            => SigKillGrace \in child'[e].signals]_vars

\* C6: an exec whose process was running when the watchdog fired eventually
\* finalizes: resolved, killed = true in its one history entry, not registered.
C6_TimedOutExecFinalizes ==
  \A e \in E :
    (call[e].kind = "exec" /\ SigTermWatchdog \in child[e].signals)
      ~> ( /\ child[e].state = "closed"
           /\ call[e].settled = "resolved"
           /\ Cardinality(EntriesOf(e)) = 1
           /\ \A i \in EntriesOf(e) : executionHistory[i].killed
           /\ ~Registered(e) )

\* C7: once the close or error handler of a call has run, none of its timers
\* is pending.
C7_NoTimerAfterFinalize ==
  \A e \in E :
    child[e].state \in {"closed", "errored"}
      => call[e].timeoutHandle # "pending" /\ call[e].graceTimer # "pending"

\* the process of call e was alive when the watchdog signalled it, and ended
\* after that (by the signal, or by an exit it made in response)
WatchdogTerminated(e) == SigTermWatchdog \in child[e].signals

\* C8: a result has killed = true exactly when the process was terminated by
\* the watchdog; a process that had ended before the watchdog fired yields
\* killed = false.
C8_KilledIffWatchdogTerminated ==
  \A i \in 1..Len(executionHistory) :
    executionHistory[i].killed <=> WatchdogTerminated(executionHistory[i].call)

\* C9: a result with killed = true belongs to a process that received the
\* SIGTERM of the watchdog.
C9_KilledImpliesSignalReceived ==
  \A e \in E :
    (\E i \in EntriesOf(e) : executionHistory[i].killed)
      => \E s \in child[e].signals : s.sig = "SIGTERM" /\ s.from = "watchdog"

\* C10 as stated: a process that ended without an exit code yields exitCode 0
\* and killed = true.
C10_SignalledIsKilled ==
  \A i \in 1..Len(executionHistory) :
    child[executionHistory[i].call].exitCode = NoCode
      => executionHistory[i].exitCode = 0 /\ executionHistory[i].killed

\* C10 amended: a process that ended without an exit code yields exitCode 0,
\* and killed = true exactly when the watchdog of the call had fired before
\* the close was handled.
C10_SignalledNormalized ==
  \A i \in 1..Len(executionHistory) :
    child[executionHistory[i].call].exitCode = NoCode
      => /\ executionHistory[i].exitCode = 0
         /\ executionHistory[i].killed <=> call[executionHistory[i].call].timeoutHandle = "fired"

\* C10 witness: the history holds the result of a process ended by kill's
\* signal with killed = false, and one ended by the watchdog's with killed = true.
C10_Witness ==
  \E i, j \in 1..Len(executionHistory) :
    /\ child[executionHistory[i].call].exitCode = NoCode
    /\ child[executionHistory[i].call].termBy = "kill"
    /\ executionHistory[i].exitCode = 0
    /\ ~executionHistory[i].killed
    /\ child[executionHistory[j].call].exitCode = NoCode
    /\ child[executionHistory[j].call].termBy = "watchdog"
    /\ executionHistory[j].exitCode = 0
    /\ executionHistory[j].killed

\* C11: the entry of a call's child is added only by the step that spawns
\* it, and removed only by the step that handles its close or error: no step
\* removes the entry of a process that is still running.
C11_RegisteredWhileAlive ==
  [][\A e \in E :
       /\ (~Registered(e) /\ Registered(e)')
            => child[e].state = "none" /\ child'[e].state = "running"
       /\ (Registered(e) /\ ~Registered(e)')
            => child'[e].state \in {"closed", "errored"}]_vars

\* C12: a call appends at most one history entry, and the history is as long
\* as the number of exec calls that have resolved with a result.
C12_OneOutcomePerExec ==
  /\ \A e \in E : Cardinality(EntriesOf(e)) <= 1
  /\ Len(executionHistory)
       = Cardinality({ e \in E : call[e].kind = "exec" /\ call[e].settled = "resolved" })

\* the child of call e has emitted a spawn-level error
SpawnErrorEmitted(e) ==
  child[e].state \in {"errored", "closed"} /\ child[e].exitCode = SpawnErrno

\* C13: an exec whose child emitted a spawn-level error is rejected with an
\* error naming the command, its watchdog is cleared, its child is not
\* registered and the history never gets an entry of that call.
C13_SpawnErrorLeavesNoResult ==
  \A e \in E :
    (call[e].kind = "exec" /\ SpawnErrorEmitted(e))
      => /\ call[e].settled = "rejected"
         /\ call[e].error.type = "execFailed"
         /\ call[e].error.command = call[e].command
         /\ call[e].timeoutHandle = "cleared"
         /\ ~Registered(e)
         /\ EntriesOf(e) = {}

\* h is a prefix of g
IsPrefix(h, g) == Len(h) <= Len(g) /\ SubSeq(g, 1, Len(h)) = h

\* C14: across every step the previous history is a prefix of the new one.
C14_HistoryAppendOnly == [][IsPrefix(executionHistory, executionHistory')]_vars

\* C14 witness: two results were appended one after the other.
C14_Witness ==
  /\ Len(executionHistory) = 2
  /\ executionHistory[1].call # executionHistory[2].call

\* the exec calls whose process has closed and which resolved with a result
Completed == { e \in E : /\ call[e].kind = "exec"
                         /\ child[e].state = "closed"
                         /\ call[e].settled = "resolved" }

\* a close of an exec call appends that call's result after the results of
\* the calls that closed earlier
CloseAppendsLast ==
  \A e \in E :
    (call[e].kind = "exec" /\ child[e].state # "closed" /\ child'[e].state = "closed")
      => /\ Len(getHistory') = Len(getHistory) + 1
         /\ IsPrefix(getHistory, getHistory')
         /\ getHistory'[Len(getHistory')].call = e
         /\ \A i \in 1..Len(getHistory) : child[getHistory[i].call].state = "closed"

\* C15: results are appended in the order the processes close, and the
\* history holds exactly the results of the completed executions.
C15_CompletionOrder ==
  [][/\ CloseAppendsLast
     /\ { getHistory'[i].call : i \in 1..Len(getHistory') } = Completed'
     /\ Len(getHistory') = Cardinality(Completed')]_vars

\* the order part of C15 alone
C15_OrderOnly == [][CloseAppendsLast]_vars

\* no execution is in flight
NoneInFlight ==
  \A e \in E : /\ child[e].state \in {"none", "closed"}
                /\ call[e].pc \in {"idle", "spawned", "rejected"}

\* C16: when no execution is in flight, getRunningProcesses returns an
\* empty sequence.
C16_IdleRegistryEmpty == NoneInFlight => getRunningProcesses = <<>>

\* C16 witness: a registered process has closed and nothing is in flight.
C16_Witness ==
  /\ NoneInFlight
  /\ getRunningProcesses = <<>>
  /\ \E e \in E : child[e].state = "closed" /\ child[e].pid # NoPid

\* the configured patterns the validated command contains
BlockedHits == { i \in 1..Len(probe.blocked) : Includes(probe.command, probe.blocked[i]) }

LeadingToken(command) ==
  LET nonsp == { i \in 1..Len(command) : command[i] # " " }
  IN  IF nonsp = {} THEN <<>>
      ELSE LET from == CHOOSE i \in nonsp : \A j \in nonsp : i <= j
               stops == { i \in from..Len(command) : command[i] = " " }
               to == IF stops = {} THEN Len(command)
                     ELSE (CHOOSE i \in stops : \A j \in stops : i <= j) - 1
           IN  SubSeq(command, from, to)

\* the leading token of the validated command is no entry of the allow-list
TokenNotListed ==
  /\ Len(probe.allowed) > 0
  /\ \A i \in 1..Len(probe.allowed) : probe.allowed[i] # LeadingToken(probe.command)

\* the answer cites "not in allowed list"
CitesNotAllowed ==
  /\ probe.result.valid = FALSE
  /\ Head(ReasonOf(probe.result)) = "Command not in allowed list: "

\* C18 as stated: a command whose leading token is no entry of a non-empty
\* allow-list is invalid with a reason containing "not in allowed list".
C18_UnlistedTokenRejected == (probe.applied /\ TokenNotListed) => CitesNotAllowed

\* C18 amended: the same for a command that contains no blocked pattern and
\* does not start with an allow-list entry followed by a space.
C18_UnlistedRejectedUnlessBlockedOrPrefixed ==
  ( /\ probe.applied
    /\ TokenNotListed
    /\ BlockedHits = {}
    /\ \A i \in 1..Len(probe.allowed) :
          ~StartsWith(probe.command, probe.allowed[i] \o <<" ">>) )
    => CitesNotAllowed

\* C18 witness: an unlisted command is rejected below the limit, the token
\* being named in the reason.
C18_Witness ==
  /\ probe.applied
  /\ TokenNotListed
  /\ BlockedHits = {}
  /\ Len(probe.command) > 1
  /\ Size(probe.running) < probe.max
  /\ CitesNotAllowed
  /\ Tail(ReasonOf(probe.result)) = LeadingToken(probe.command)

\* the validated command passes the allow-list gate
PassesAllowList ==
  \/ Len(probe.allowed) = 0
  \/ \E i \in 1..Len(probe.allowed) :
        \/ CommandBase(probe.command) = probe.allowed[i]
        \/ StartsWith(probe.command, probe.allowed[i] \o <<" ">>)

\* C19: a command passing the block-list and allow-list gates is invalid with
\* a reason naming the limit exactly when the registry size has reached the
\* limit, and valid with no suggestions otherwise; a command failing an
\* earlier gate gets that gate's reason even when the limit is reached.
C19_ConcurrencyGateLast ==
  probe.applied =>
    /\ (BlockedHits = {} /\ PassesAllowList)
          => IF Size(probe.running) >= probe.max
             THEN /\ probe.result.valid = FALSE
                  /\ ReasonOf(probe.result)
                       = <<"Maximum concurrent processes reached: ", probe.max>>
             ELSE /\ probe.result.valid = TRUE
                  /\ probe.result.suggestions = <<>>
    /\ BlockedHits # {}
          => Head(ReasonOf(probe.result)) = "Command contains blocked pattern: "
    /\ (BlockedHits = {} /\ ~PassesAllowList)
          => Head(ReasonOf(probe.result)) = "Command not in allowed list: "

\* C19 witness: a command passing both gates meets a registry exactly at the
\* limit and is turned away.
C19_Witness ==
  /\ probe.applied
  /\ BlockedHits = {} /\ PassesAllowList
  /\ Len(probe.allowed) > 0 /\ Len(probe.blocked) > 0
  /\ Size(probe.running) = probe.max
  /\ probe.result.kind = "maxConcurrent"

SigTermKill == [sig |-> "SIGTERM", from |-> "kill"]

\* what a step of kill(pid) must do to a registry that holds pid
KillOfRegistered(pid) ==
  LET idx == Get(runningProcesses, pid)
      c == runningProcesses[idx].child
  IN  /\ killReturns(runningProcesses, pid) = TRUE
      /\ Len(runningProcesses') = Len(runningProcesses) - 1
      /\ \A i \in 1..Len(runningProcesses') :
            runningProcesses'[i] = runningProcesses[IF i < idx THEN i ELSE i + 1]
      /\ executionHistory' = executionHistory
      /\ call' = call
      /\ \A d \in E \ {c} : child'[d] = child[d]
      /\ IF child[c].state = "running"
         THEN /\ child'[c].signals = child[c].signals \cup {SigTermKill}
              /\ child'[c].state = "running"
         ELSE child'[c] = child[c]
      /\ killReturns(runningProcesses', pid) = FALSE

\* C20: kill(pid) of a registered pid signals that process with SIGTERM,
\* removes exactly its entry, leaves the other entries and the history alone
\* and returns true, so that a second kill returns false; kill(pid) of an
\* unregistered pid returns false and changes nothing.
C20_KillOne ==
  [][\A pid \in Pids :
       kill(pid) => IF Has(runningProcesses, pid)
                    THEN KillOfRegistered(pid)
                    ELSE /\ killReturns(runningProcesses, pid) = FALSE
                         /\ UNCHANGED vars]_vars

\* C20 witness: one of two registered processes was killed: it got SIGTERM
\* and left the registry, the other is still registered.
C20_Witness ==
  /\ ~killAllRun.active
  /\ \E e \in E :
       /\ child[e].state = "running"
       /\ SigTermKill \in child[e].signals
       /\ ~Registered(e)
       /\ \E d \in E \ {e} : Registered(d) /\ child[d].signals = {}

\* C21: killAll signals every process registered when it is called with
\* SIGTERM, removes all of their entries and returns their number; on an
\* empty registry it returns 0 and changes nothing.
C21_KillAllTerminatesAll ==
  [][/\ (~killAllRun.active /\ killAllRun'.active)
          => /\ killAllReturns(runningProcesses) = Cardinality(killAllRun'.targets)
             /\ \A c \in E : Registered(c) => c \in killAllRun'.targets
     /\ (killAllRun.active /\ ~killAllRun'.active)
          => \A c \in killAllRun.targets :
               /\ ~Registered(c)'
               /\ child'[c].state = "running" => SigTermKill \in child'[c].signals
     /\ (killAll /\ runningProcesses = <<>>)
          => killAllReturns(runningProcesses) = 0 /\ UNCHANGED vars]_vars

\* C21 witness: killAll has gone through two registered, running processes:
\* both got SIGTERM and left the registry, the call is about to return 2.
C21_Witness ==
  /\ killAllRun.active
  /\ killAllRun.pids = <<>>
  /\ Cardinality(killAllRun.targets) = 2
  /\ \A c \in killAllRun.targets :
       /\ child[c].state = "running"
       /\ SigTermKill \in child[c].signals
       /\ ~Registered(c)

\* C22: nothing a caller does to an array returned by getHistory changes what
\* a later getHistory returns; a stored result never changes.
C22_SnapshotIsolated == [][getHistory' = getHistory]_vars

\* the array operations of the caller (pop, push, reverse) alone leave the
\* stored history as it is
C22_ArrayOpsIsolated ==
  [][(callGetHistory \/ SnapshotPop \/ SnapshotPush \/ SnapshotReverse)
       => getHistory' = getHistory]_vars

\* C23: a stream of a command that validate rejects spawns no process and
\* registers nothing.
C23_StreamValidates ==
  [][\A e \in E :
       ( /\ call[e].pc = "idle"
         /\ call'[e].kind = "stream"
         /\ ~validate(call'[e].command, runningProcesses).valid )
         => /\ child'[e].state # "running"
            /\ runningProcesses' = runningProcesses]_vars

\* C24: a stream whose process was running when the watchdog fired is marked
\* killed and, the forceful signal following the graceful one, its process
\* ends and the call settles.
C24_TimedOutStreamSettles ==
  \A e \in E :
    (call[e].kind = "stream" /\ SigTermWatchdog \in child[e].signals)
      ~> ( /\ call[e].killed
           /\ child[e].state = "closed"
           /\ call[e].settled # "pending" )

\* the process of call e exited on its own with a non-zero code, the watchdog
\* not having fired while it ran, and its close was handled
ExitedNonZeroBeforeWatchdog(e) ==
  /\ call[e].kind = "exec"
  /\ child[e].state = "closed"
  /\ child[e].exitCode \in ExitCodes \ {0}
  /\ SigTermWatchdog \notin child[e].signals

\* C25: an exec whose process exits on its own with a non-zero code c before
\* the watchdog fires resolves with exitCode = c and killed = false, the
\* result being appended to the history.
C25_NonZeroExitResolves ==
  \A e \in E :
    ExitedNonZeroBeforeWatchdog(e)
      => /\ call[e].settled = "resolved"
         /\ Cardinality(EntriesOf(e)) = 1
         /\ \A i \in EntriesOf(e) :
               /\ getHistory[i].exitCode = child[e].exitCode
               /\ getHistory[i].killed = FALSE

\* the same, the close too being handled before the watchdog fires
C25_ClosedBeforeWatchdog ==
  \A e \in E :
    (ExitedNonZeroBeforeWatchdog(e) /\ call[e].timeoutHandle = "cleared")
      => /\ call[e].settled = "resolved"
         /\ Cardinality(EntriesOf(e)) = 1
         /\ \A i \in EntriesOf(e) :
               /\ getHistory[i].exitCode = child[e].exitCode
               /\ getHistory[i].killed = FALSE

RECURSIVE Flatten(_)
\* the chunks of a list joined in order
Flatten(chunks) ==
  IF chunks = <<>> THEN <<>> ELSE Head(chunks) \o Flatten(Tail(chunks))

RECURSIVE FlattenDecoded(_)
\* the chunks of a list, each decoded on its own, joined in order
FlattenDecoded(chunks) ==
  IF chunks = <<>> THEN <<>> ELSE toString(Head(chunks)) \o FlattenDecoded(Tail(chunks))

\* C26: the stdout of a result is the text the process wrote to stdout, all
\* chunks in arrival order, trimmed, and the stderr likewise: no chunk lost,
\* duplicated, attributed to the other stream or mixed with another call's.
C26_OutputIsWhatWasWritten ==
  \A i \in 1..Len(getHistory) :
    LET e == getHistory[i].call
    IN  /\ getHistory[i].stdout = Trim(toString(Flatten(io[e].wroteOut)))
        /\ getHistory[i].stderr = Trim(toString(Flatten(io[e].wroteErr)))

\* the same for the chunks as the data handlers turn them into text, one by one
C26_ChunkTextsJoined ==
  \A i \in 1..Len(getHistory) :
    LET e == getHistory[i].call
    IN  /\ getHistory[i].stdout = Trim(FlattenDecoded(io[e].wroteOut))
        /\ getHistory[i].stderr = Trim(FlattenDecoded(io[e].wroteErr))

\* C27: on an empty history analyzePatterns answers 0 executions, success
\* rate 0 and average duration 0, no quotient having a zero divisor; on a
\* non-empty one the success rate is the number of entries with exit code 0
\* over the total, between 0 and 1.
C27_SuccessRate ==
  analysis.applied =>
    LET r == analysis.result
        ok == { i \in 1..Len(getHistory) : getHistory[i].exitCode = 0 }
    IN  /\ r.totalExecutions = Len(getHistory)
        /\ r.successRate.den # 0 /\ r.averageDuration.den # 0
        /\ getHistory = <<>>
              => r.successRate = Zero /\ r.averageDuration = Zero
        /\ getHistory # <<>>
              => /\ r.successRate.num = Cardinality(ok)
                 /\ r.successRate.den = Len(getHistory)
                 /\ 0 <= r.successRate.num /\ r.successRate.num <= r.successRate.den

\* C27 witness: analyzePatterns was called on the empty history.
C27_Witness ==
  /\ analysis.applied
  /\ getHistory = <<>>
  /\ analysis.result.totalExecutions = 0

\* the number of history entries whose command starts with token t, and the
\* position of the first of them
UsesOf(t) ==
  Cardinality({ i \in 1..Len(getHistory) : CommandBase(getHistory[i].command) = t })
FirstUseOf(t) ==
  CHOOSE i \in 1..Len(getHistory) :
    /\ CommandBase(getHistory[i].command) = t
    /\ \A k \in 1..(i - 1) : CommandBase(getHistory[k].command) # t

\* t ranks before u: used more often, or as often and seen first
RanksBefore(t, u) ==
  \/ UsesOf(t) > UsesOf(u)
  \/ UsesOf(t) = UsesOf(u) /\ FirstUseOf(t) < FirstUseOf(u)

\* C28: mostUsedCommands lists at most 5 distinct commands, the most used
\* ones, by descending number of uses, equal numbers in the order of first
\* occurrence in the history.
C28_MostUsedRanked ==
  analysis.applied =>
    LET m == analysis.result.mostUsedCommands
        listed == { m[i] : i \in 1..Len(m) }
    IN  /\ Len(m) <= 5
        /\ Len(m) = IF Cardinality(TokensSeen) < 5 THEN Cardinality(TokensSeen) ELSE 5
        /\ listed \subseteq TokensSeen
        /\ \A i, k \in 1..Len(m) : i < k => RanksBefore(m[i], m[k])
        /\ \A t \in TokensSeen \ listed : \A i \in 1..Len(m) : RanksBefore(m[i], t)

\* C28 witness: six commands were used, the most used one was not the first
\* one seen, and two of the listed ones were used equally often.
C28_Witness ==
  /\ analysis.applied
  /\ Cardinality(TokensSeen) = 6
  /\ LET m == analysis.result.mostUsedCommands
     IN  /\ Len(m) = 5
         /\ UsesOf(m[1]) > UsesOf(m[2])
         /\ FirstUseOf(m[1]) > FirstUseOf(m[2])
         /\ UsesOf(m[2]) = UsesOf(m[3])

\* the positions of the history entries with a non-zero exit code
Failures == { i \in 1..Len(getHistory) : getHistory[i].exitCode # 0 }

\* C29: recentFailures is the last min(5, k) of the k history entries with a
\* non-zero exit code, in history order.
C29_RecentFailures ==
  analysis.applied =>
    LET f == analysis.result.recentFailures
        k == Cardinality(Failures)
    IN  /\ Len(f) = IF k < 5 THEN k ELSE 5
        /\ \A n \in 1..Len(f) :
              \E i \in Failures :
                /\ Cardinality({ x \in Failures : x > i }) = Len(f) - n
                /\ f[n] = getHistory[i]

\* C29 witness: six runs failed, one succeeded in between, five are reported.
C29_Witness ==
  /\ analysis.applied
  /\ Cardinality(Failures) = 6
  /\ Len(analysis.result.recentFailures) = 5
  /\ \E i \in 2..(Len(getHistory) - 1) : getHistory[i].exitCode = 0

\* the text before the first space of a command (all of it without a space)
FirstToken(command) ==
  LET spaces == { i \in 1..Len(command) : command[i] = " " }
  IN  IF spaces = {} THEN command
      ELSE SubSeq(command, 1, (CHOOSE i \in spaces : \A k \in spaces : i <= k) - 1)

\* entry a, followed by a space, opens the command
OpensWith(command, a) ==
  /\ Len(command) > Len(a)
  /\ \A i \in 1..Len(a) : command[i] = a[i]
  /\ command[Len(a) + 1] = " "

\* C30: with a non-empty allow-list, a command without a blocked pattern that
\* is validated below the limit is valid exactly if some allow-list entry is
\* its first space-delimited token or, followed by a space, opens it.
C30_AllowListGate ==
  ( /\ probe.applied
    /\ Len(probe.allowed) > 0
    /\ \A i \in 1..Len(probe.blocked) : ~Includes(probe.command, probe.blocked[i])
    /\ Size(probe.running) < probe.max )
    => ( probe.result.valid
           <=> \E i \in 1..Len(probe.allowed) :
                 \/ probe.allowed[i] = FirstToken(probe.command)
                 \/ OpensWith(probe.command, probe.allowed[i]) )

\* C30 witness: a command is valid only because an entry of two words,
\* followed by a space, opens it.
C30_Witness ==
  /\ probe.applied
  /\ \A i \in 1..Len(probe.blocked) : ~Includes(probe.command, probe.blocked[i])
  /\ Size(probe.running) > 0
  /\ Size(probe.running) < probe.max
  /\ probe.result.valid
  /\ \A i \in 1..Len(probe.allowed) : probe.allowed[i] # FirstToken(probe.command)
  /\ \E i \in 1..Len(probe.allowed) : OpensWith(probe.command, probe.allowed[i])

\* C31: a timeout or a working directory the request supplies, 0 and the
\* empty string included, is the one the watchdog is armed with and the
\* process is spawned in; the default is used only for an absent field.
C31_SuppliedOptionsWin ==
  execOptions.applied =>
    /\ execOptions.result.timeout =
          IF execOptions.options.timeout.given
          THEN execOptions.options.timeout.value ELSE execOptions.defaultTimeout
    /\ execOptions.result.cwd =
          IF execOptions.options.cwd.given
          THEN execOptions.options.cwd.value ELSE execOptions.defaultCwd

\* the same for supplied values other than 0 and the empty string
C31_TruthyOptionsWin ==
  execOptions.applied =>
    /\ execOptions.result.timeout =
          IF execOptions.options.timeout.given /\ execOptions.options.timeout.value # 0
          THEN execOptions.options.timeout.value ELSE execOptions.defaultTimeout
    /\ execOptions.result.cwd =
          IF execOptions.options.cwd.given /\ execOptions.options.cwd.value # <<>>
          THEN execOptions.options.cwd.value ELSE execOptions.defaultCwd


\* the places of the log of a stream where a callback was invoked
Positions(L, name) == { i \in 1..Len(L) : L[i].cb = name }
ChunkCallbacks(L) == Positions(L, "onStdout") \cup Positions(L, "onStderr")

\* the 'close' event of a stream call was handled
StreamClosed(e) == call[e].kind = "stream" /\ child[e].state = "closed"

\* onExit once, before the one resolve, with the code of the resolve, after
\* one chunk callback for every chunk the process wrote
ExitCallbackInOrder(e) ==
  LET L == io[e].log IN
    /\ Cardinality(Positions(L, "onExit")) = 1
    /\ Cardinality(Positions(L, "resolve")) = 1
    /\ \A i \in Positions(L, "onExit"), j \in Positions(L, "resolve") :
          i < j /\ L[i].arg = L[j].arg
    /\ \A i \in ChunkCallbacks(L), j \in Positions(L, "onExit") : i < j
    /\ Cardinality(ChunkCallbacks(L)) = Len(io[e].wroteOut) + Len(io[e].wroteErr)

\* C32: for every stream call whose 'close' event was handled, onExit was
\* invoked exactly once, with the exit code of the resolved result, after
\* every onStdout/onStderr callback of the call and before the promise
\* resolved, and no chunk callback follows it.
C32_OnExitOnceBeforeResolve ==
  \A e \in E : StreamClosed(e) => ExitCallbackInOrder(e)

\* C32, for the streams whose process was spawned: the order holds
C32_SpawnedStreamExitInOrder ==
  \A e \in E : StreamClosed(e) /\ child[e].pid # NoPid => ExitCallbackInOrder(e)

\* C32, the failing case: onExit was invoked after the promise was rejected
C32_OnExitAfterReject ==
  \E e \in E :
    /\ StreamClosed(e)
    /\ call[e].settled = "rejected"
    /\ Positions(io[e].log, "onExit") # {}
    /\ Positions(io[e].log, "resolve") = {}

\* C32, a stream that wrote chunks to both pipes was closed in order
C32_ChunksThenExit ==
  \E e \in E :
    /\ StreamClosed(e)
    /\ Len(io[e].wroteOut) > 1 /\ Len(io[e].wroteErr) > 1
    /\ ExitCallbackInOrder(e)

\* a registry of the same size as m holding other pids and other children
OtherRegistry(m) == [i \in 1..Len(m) |-> [pid |-> NoPid, child |-> Len(m) + 1 - i]]

\* C33: a call of validate, getHistory, getRunningProcesses, analyzePatterns
\* or whoami leaves the registry and the history as they were and sends no
\* signal (no child and no call changes); the answer of validate is what
\* validate answers for the same command on any registry of the same size.
C33_ReadOnlyOperations ==
  [][ /\ UNCHANGED <<runningProcesses, executionHistory, child, call, killAllRun>>
      /\ reply'.op = "validate" =>
            reply'.validation = validate(reply'.command, OtherRegistry(runningProcesses))
    ]_vars

\* C33: a read-only operation answered on a unit that holds a running
\* process and a recorded result
C33_Witness ==
  /\ reply.op \in {"validate", "getHistory", "getRunningProcesses", "analyzePatterns", "whoami"}
  /\ Size(runningProcesses) > 0
  /\ Len(executionHistory) > 0
  /\ reply.op = "validate" => ~reply.validation.valid

\* the step is the close or the error handler of call e
Deregisters(e) ==
  /\ child[e].state # child'[e].state
  /\ child'[e].state \in {"closed", "errored"}

\* the registry entries of the other calls are kept by the step
KeepsOthersEntries(e) ==
  \A i \in 1..Len(runningProcesses) :
    runningProcesses[i].child # e =>
      \E j \in 1..Len(runningProcesses') : runningProcesses'[j] = runningProcesses[i]

\* C34: no two calls whose process was spawned and whose close is not yet
\* handled hold the same pid, and the close or error handler of a call
\* removes from the registry no entry that another call registered, also
\* when the OS hands the pid of an exited process to a new one.
C34_OwnEntryOnly ==
  [][ /\ \A e1, e2 \in E :
            /\ e1 # e2
            /\ child'[e1].state \in {"running", "exited"}
            /\ child'[e2].state \in {"running", "exited"}
            => child'[e1].pid # child'[e2].pid
      /\ \A e \in E : Deregisters(e) => KeepsOthersEntries(e)
    ]_vars

\* C34, the deregistration alone
C34_HandlerKeepsOthersEntries ==
  [][ \A e \in E : Deregisters(e) => KeepsOthersEntries(e) ]_vars

\* C34, the failing case: the close of a call was handled, and the running
\* process of another call that got the same pid, and that nobody signalled,
\* is no longer registered
C34_ForeignEntryRemoved ==
  \E e1, e2 \in E :
    /\ e1 # e2
    /\ child[e1].state = "closed"
    /\ child[e2].state = "running"
    /\ child[e2].signals = {}
    /\ child[e1].pid = child[e2].pid
    /\ ~Has(runningProcesses, child[e2].pid)

\* kill(pid) returned true for the process of call e, or killAll counted it:
\* the process was sent the SIGTERM of kill
KilledByCaller(e) == \E s \in child[e].signals : s.from = "kill"

\* C35: once kill or killAll has signalled the process of a call, the call
\* eventually settles, also when the process ignores SIGTERM.
C35_KilledCallSettles ==
  \A e \in E : KilledByCaller(e) ~> call[e].settled # "pending"

\* C35, the failing case: the process of an exec got only the SIGTERM of
\* kill, still runs, and no timer of the call is pending any more
C35_KilledAndStuck ==
  \E e \in E :
    /\ call[e].kind = "exec"
    /\ KilledByCaller(e)
    /\ child[e].state = "running"
    /\ \A s \in child[e].signals : s.sig = "SIGTERM"
    /\ call[e].timeoutHandle = "fired"
    /\ call[e].graceTimer = "fired"
    /\ call[e].settled = "pending"

\* the text holds the pattern somewhere
HoldsPattern(text, pattern) ==
  \E i \in 0..(Len(text) - Len(pattern)) :
    \A k \in 1..Len(pattern) : text[i + k] = pattern[k]

\* the command passes the two command gates of the configured unit
PassedCommandGates(command) ==
  /\ \A i \in 1..Len(blockedCommands) : ~HoldsPattern(command, blockedCommands[i])
  /\ Len(allowedCommands) > 0 =>
        \E i \in 1..Len(allowedCommands) :
          \/ FirstToken(command) = allowedCommands[i]
          \/ OpensWith(command, allowedCommands[i])

\* C36: in every reachable state the command of every history entry holds no
\* configured blocked pattern and, the allow-list being non-empty, satisfies
\* the allow-list rule.
C36_HistoryPassedGates ==
  \A i \in 1..Len(executionHistory) : PassedCommandGates(executionHistory[i].command)

\* C36 witness: a result is recorded, and an exec of a command holding a
\* blocked pattern and one of a command off the allow-list were rejected
\* (the unit has a non-empty allow-list and block-list)
C36_Witness ==
  /\ Len(executionHistory) > 0
  /\ Len(allowedCommands) > 0 /\ Len(blockedCommands) > 0
  /\ \E e \in E :
       /\ call[e].pc = "rejected"
       /\ ~PassedCommandGates(call[e].command)

\* the step belongs to call e: its closure, its child or its output changes
StepOf(e) == call'[e] # call[e] \/ child'[e] # child[e] \/ io'[e] # io[e]

\* C37: no step of a stream call (its spawn, its data, timeout, close and
\* error handlers, the signals sent to its process and the exit of it)
\* changes the history, and every history entry is the result of an exec.
C37_StreamLeavesHistory ==
  [][ /\ \A e \in E : (call'[e].kind = "stream" /\ StepOf(e))
                          => executionHistory' = executionHistory
      /\ \A i \in 1..Len(executionHistory') :
            call'[executionHistory'[i].call].kind = "exec"
    ]_vars

\* C37 witness: a stream that timed out was closed and an exec was closed;
\* the history holds the one result of the exec
C37_Witness ==
  /\ \E e \in E : /\ call[e].kind = "stream"
                   /\ call[e].killed
                   /\ child[e].state = "closed"
                   /\ call[e].settled = "resolved"
  /\ \E e \in E : call[e].kind = "exec" /\ child[e].state = "closed"
  /\ Len(executionHistory) = 1

\* call e was issued before the killAll in progress was called: calls are
\* numbered in the order of their issue, and a later call had its process
\* registered when killAll took the pids
IssuedBeforeKillAll(e) == \E t \in killAllRun.targets : e < t

\* the process of call e runs, is registered, and was never sent a signal
UnsignalledProcess(e) ==
  /\ child[e].state = "running"
  /\ child[e].signals = {}
  /\ Registered(e)

\* C38: in the step in which killAll resolves, no exec call issued before
\* killAll was called holds a registered running process that was never sent
\* a signal: its process was signalled or was never spawned.
C38_KillAllStopsIssuedExecs ==
  [][ (killAllRun.active /\ ~killAllRun'.active)
        => \A e \in E :
             (call[e].kind = "exec" /\ IssuedBeforeKillAll(e)) => ~UnsignalledProcess(e)
    ]_vars

\* C38, the failing case: killAll has done its last kill and is about to
\* resolve, and an exec issued before it holds a registered process that was
\* never signalled
C38_SurvivorAtResolve ==
  /\ killAllRun.active
  /\ killAllRun.pids = <<>>
  /\ \E e \in E :
       /\ call[e].kind = "exec"
       /\ IssuedBeforeKillAll(e)
       /\ UnsignalledProcess(e)
====
